---- MODULE Spec2Model ----
(***************************************************************************)
(* Incremental ingestion of Seattle crime records (fetch_crime_data in     *)
(* SeattleCrimeData_analysis/assets.py): checkpoint resolution, the        *)
(* day-by-day offset-paginated fetch and the bulk upsert into the MongoDB  *)
(* collection.                                                             *)
(*                                                                         *)
(* Time.  A timestamp is an integer day * TicksPerDay + tick.  The ticks   *)
(* 0..TicksPerDay - 2 are the instants from 00:00:00 to 23:59:59.000 of    *)
(* the day, and the last tick, TicksPerDay - 1, is an instant after        *)
(* 23:59:59.000 and before midnight (a timestamp with a non-zero fraction  *)
(* in the last second).                                                    *)
(*                                                                         *)
(* The remote dataset changes between runs only, and its result set for a  *)
(* date keeps one order from request to request.  The page size of 1000    *)
(* is scaled down to batch_size.                                           *)
(*                                                                         *)
(* Documents and API records are functions from field names to values;     *)
(* a field that is absent is not in the DOMAIN.                            *)
(***************************************************************************)
EXTENDS Integers, Sequences, FiniteSets, TLC

\* ---------------------------------------------------------------- bounds
MaxDay == 2          \* days are EPOCH..MaxDay, for the clock and the records
MaxRemote == 3       \* most records the remote dataset holds at once
MaxVersion == 3      \* most changes made to the remote dataset
TicksPerDay == 2     \* instants distinguished within one day

\* ------------------------------------------------------ program constants
EPOCH == 1           \* "2025-01-01", the first-ever run fallback
batch_size == 2      \* $limit of one page (1000 in the source)

Keys == {"A", "B"}           \* report_number values
Precincts == {"N"}           \* values of one further, optional field
Absent == "absent"           \* generator marker: the field is not in the record

Days == EPOCH..MaxDay
Timestamps == (EPOCH * TicksPerDay)..(MaxDay * TicksPerDay + TicksPerDay - 1)

Min(a, b) == IF a <= b THEN a ELSE b

\* A flat key-value record of the API response.
MkRecord(k, ts, p) ==
    [f \in {"offense_date"}
           \cup (IF k = Absent THEN {} ELSE {"report_number"})
           \cup (IF p = Absent THEN {} ELSE {"precinct"})
       |-> IF f = "offense_date" THEN ts
           ELSE IF f = "report_number" THEN k
           ELSE p]

Records ==
    {MkRecord(k, ts, p) : k \in Keys \cup {Absent}, ts \in Timestamps,
                          p \in Precincts \cup {Absent}}

\* pd.to_datetime(ts).date()
DateOf(ts) == ts \div TicksPerDay

\* f"{current_date}T00:00:00" and f"{current_date}T23:59:59"
start_datetime(d) == d * TicksPerDay
end_datetime(d) == d * TicksPerDay + (TicksPerDay - 2)

\* The $where filter of one request.
InWindow(r, d) ==
    /\ r["offense_date"] >= start_datetime(d)
    /\ r["offense_date"] <= end_datetime(d)

\* The remote's result set for one date under "$order": "offense_date ASC".
\* Records with equal offense_date come in one fixed order for a given
\* dataset.
Ordered(data, d) ==
    LET M == {r \in data : InWindow(r, d)}
        n == Cardinality(M)
    IN CHOOSE s \in [1..n -> M] :
          /\ \A i, j \in 1..n : i # j => s[i] # s[j]
          /\ \A i, j \in 1..n : i < j => s[i]["offense_date"] <= s[j]["offense_date"]

\* response.json() of the request with "$limit": batch_size, "$offset": off.
Page(data, d, off) ==
    LET s == Ordered(data, d)
    IN SubSeq(s, off + 1, Min(off + batch_size, Len(s)))

\* [UpdateOne(...) for record in batch if "report_number" in record]
HasKey(r) == "report_number" \in DOMAIN r
operations(batch) == SelectSeq(batch, HasKey)

\* Variant: the record replaces the stored document (replace_one).
SetFields_replace(doc, record) == record

\* The update document {"$set": record} applied to a stored document.
SetFields(doc, record) ==
    [f \in DOMAIN doc \cup DOMAIN record
       |-> IF f \in DOMAIN record THEN record[f] ELSE doc[f]]

\* The filter {"report_number": record["report_number"]}.
Matches(doc, record) ==
    /\ "report_number" \in DOMAIN doc
    /\ doc["report_number"] = record["report_number"]

\* Variant: every record is inserted (insert_one), matched or not.
UpdateOne_insert(coll, record) == Append(coll, record)

\* UpdateOne(filter, {"$set": record}, upsert=True) on the collection: the
\* first matching document is updated, and with no match one document is
\* inserted.
UpdateOne(coll, record) ==
    IF \E i \in 1..Len(coll) : Matches(coll[i], record)
    THEN LET i == CHOOSE i \in 1..Len(coll) :
                    /\ Matches(coll[i], record)
                    /\ \A j \in 1..(i - 1) : ~Matches(coll[j], record)
         IN [coll EXCEPT ![i] = SetFields(coll[i], record)]
    ELSE Append(coll, record)

RECURSIVE ApplyOps(_, _)
ApplyOps(coll, ops) ==
    IF ops = <<>> THEN coll
    ELSE ApplyOps(UpdateOne(coll, Head(ops)), Tail(ops))

\* collection.bulk_write(operations, ordered=False): the operations are
\* applied one at a time in an order the server chooses.
Orders(n) ==
    {p \in [1..n -> 1..n] : \A i, j \in 1..n : i # j => p[i] # p[j]}
bulk_write(coll, ops) ==
    {ApplyOps(coll, [i \in 1..Len(ops) |-> ops[p[i]]]) : p \in Orders(Len(ops))}

\* find_one({"offense_date": {"$exists": True}}, sort=[("offense_date", -1)])
Dated(coll) == {i \in 1..Len(coll) : "offense_date" \in DOMAIN coll[i]}
latest_doc(coll) ==
    LET i == CHOOSE i \in Dated(coll) :
                \A j \in Dated(coll) : coll[j]["offense_date"] <= coll[i]["offense_date"]
    IN coll[i]

\* Variant: the checkpoint steps a day back from the latest stored date.
ResolveStart_back(coll) ==
    IF Dated(coll) # {}
    THEN DateOf(latest_doc(coll)["offense_date"]) - 1
    ELSE EPOCH

\* The incremental checkpoint.
ResolveStart(coll) ==
    IF Dated(coll) # {}
    THEN DateOf(latest_doc(coll)["offense_date"]) + 1
    ELSE EPOCH

\* Variant: the early return is taken a day late.
NoNewData_late(start, now) == start > now + 1

\* if start_date > today: return the "No new data available" output
NoNewData(start, now) == start > now

\* Variant: the final return sits inside the loop over the dates.
MoreDates_once(cur, now) == FALSE

\* while current_date <= today
MoreDates(cur, now) == cur <= now

\* Variant: no raise_for_status(), errors are swallowed.
Raises_never(status) == FALSE

\* requests.get(..., timeout=30) raises on a transport error and
\* response.raise_for_status() raises on a non-success status.
Statuses == {"ok", "http_error", "transport_error"}
Raises(status) == status # "ok"

\* Variant: if not operations: break
EndOfDate_nokeys(batch) == operations(batch) = <<>>

\* if not batch: break
EndOfDate(batch) == batch = <<>>

\* Variant: result.upserted_count + result.modified_count
upserted_count_modified(before, after) ==
    (Len(after) - Len(before))
        + Cardinality({i \in 1..Len(before) : before[i] # after[i]})

\* result.upserted_count: the documents the bulk write inserted.
upserted_count(before, after) == Len(after) - Len(before)

\* ======================================================================
\* The daily job after ingestion: load_and_process_crime_data_from_mongodb,
\* clean_and_analyze_crime_data and store_crime_data_postgres.
\*
\* A cell of a DataFrame is [t, v]: a string (t = "str"), a float
\* (t = "num", v its repr) or a missing value (t = "na": None, NaN).
\* An offense_date cell is [t, sep, day, sec, fdigits, frac]: a string
\* (t = "str") written with the separator sep between date and time
\* ("T", " ", "-" for a date without a time, "x" for text that is no date)
\* and fdigits fractional digits, a pandas Timestamp (t = "ts"), or a
\* missing value (t = "na": None, NaT).
\* ======================================================================
MaxRows == 2         \* most rows of one input batch
MaxDefects == 1      \* most deviations of an input row from a valid record

S(v) == [t |-> "str", v |-> v]
N(v) == [t |-> "num", v |-> v]
NA == [t |-> "na", v |-> ""]
IsNA(c) == c.t = "na"

DateStr(sep, sec, fdigits, frac) ==
    [t |-> "str", sep |-> sep, day |-> 1, sec |-> sec, fdigits |-> fdigits, frac |-> frac]
Timestamp(day, sec, frac) ==
    [t |-> "ts", sep |-> "-", day |-> day, sec |-> sec, fdigits |-> 0, frac |-> frac]
NotADate == [t |-> "str", sep |-> "x", day |-> 0, sec |-> 0, fdigits |-> 0, frac |-> 0]
NaT == [t |-> "na", sep |-> "-", day |-> 0, sec |-> 0, fdigits |-> 0, frac |-> 0]

\* required_columns of the load step (those the cleaning reads, and
\* report_number).
required_columns ==
    {"report_number", "offense_date", "nibrs_crime_against_category",
     "precinct", "longitude", "latitude"}

\* A valid stored record: "2025-01-01T00:00:01.000" and so on.
ValidRecord ==
    [c \in required_columns |->
        CASE c = "report_number" -> S("R1")
          [] c = "offense_date" -> DateStr("T", 1, 3, 0)
          [] c = "nibrs_crime_against_category" -> S("PERSON")
          [] c = "precinct" -> S("N")
          [] c = "longitude" -> S("-122.3")
          [] c = "latitude" -> S("47.6")]

\* The ways one record deviates from ValidRecord: each is a set of fields
\* with other values.
Deviations ==
    {[report_number |-> S("R2")],
     [nibrs_crime_against_category |-> S("PROPERTY")],
     [nibrs_crime_against_category |-> S("-")],
     [nibrs_crime_against_category |-> S("NOT_A_CRIME")],
     [nibrs_crime_against_category |-> NA],
     [precinct |-> S("-")],
     [latitude |-> S("REDACTED")],
     [latitude |-> S("REDACTED"), longitude |-> S("REDACTED")],
     [latitude |-> S("-1.0")],
     [latitude |-> N("-1.0")],
     [latitude |-> S("abc")],
     [latitude |-> NA],
     [longitude |-> S("REDACTED")],
     [latitude |-> S("0.0"), longitude |-> S("0.0")],
     [latitude |-> S("0"), longitude |-> S("0.0")],
     [latitude |-> S("0.0")],
     [offense_date |-> DateStr(" ", 1, 0, 0)],
     [offense_date |-> DateStr("T", 1, 0, 0)],
     [offense_date |-> DateStr("T", 1, 3, 500)],
     [offense_date |-> DateStr("T", 1, 6, 500)],
     [offense_date |-> DateStr("T", 0, 3, 0)],
     [offense_date |-> NotADate],
     [offense_date |-> NaT]}

Override(rec, dev) ==
    [c \in DOMAIN rec |-> IF c \in DOMAIN dev THEN dev[c] ELSE rec[c]]

RECURSIVE Deviating(_)
Deviating(n) ==
    IF n = 0 THEN {ValidRecord}
    ELSE Deviating(n - 1)
           \cup {Override(r, d) : r \in Deviating(n - 1), d \in Deviations}

RawRecords == Deviating(MaxDefects)

RECURSIVE SeqsUpTo(_, _)
SeqsUpTo(X, n) ==
    IF n = 0 THEN {<<>>}
    ELSE SeqsUpTo(X, n - 1)
           \cup {Append(s, x) : s \in {q \in SeqsUpTo(X, n - 1) : Len(q) = n - 1}, x \in X}

\* A row of a frame carries its index label (the RangeIndex of the frame it
\* was built in) under "index"; the label is no column.
Index(i) == [t |-> "idx", v |-> i]
WithIndex(rec, i) ==
    [c \in DOMAIN rec \cup {"index"} |-> IF c = "index" THEN Index(i) ELSE rec[c]]
Cells(row) == [c \in DOMAIN row \ {"index"} |-> row[c]]

\* pd.DataFrame(data_list): the columns are the keys of the records, and an
\* empty list gives a frame without columns.
DataFrame(recs) ==
    [columns |-> UNION {DOMAIN recs[i] : i \in 1..Len(recs)},
     rows |-> [i \in 1..Len(recs) |-> WithIndex(recs[i], i)]]

\* SelectSeq with the position: the rows of s whose position is in keep.
RECURSIVE Take(_, _, _)
Take(s, keep, i) ==
    IF i > Len(s) THEN <<>>
    ELSE (IF i \in keep THEN <<s[i]>> ELSE <<>>) \o Take(s, keep, i + 1)

\* pd.to_datetime(value, errors="coerce") of one cell.
to_datetime(c) ==
    IF c.t = "ts" THEN c
    ELSE IF c.t = "str" /\ c.sep \in {"T", " "} THEN Timestamp(c.day, c.sec, c.frac)
    ELSE IF c.t = "str" /\ c.sep = "-" THEN Timestamp(c.day, 0, 0)
    ELSE NaT

\* Lines 143-172, load_and_process_crime_data_from_mongodb: the frame of
\* the stored documents, the required columns of it, offense_date parsed.
Load(docs) ==
    IF docs = <<>> THEN DataFrame(<<>>)
    ELSE LET df == DataFrame(docs)
             available_columns == required_columns \cap df.columns
         IN [columns |-> available_columns,
             rows |-> [i \in 1..Len(docs) |->
                        [c \in available_columns \cup {"index"} |->
                            IF c = "offense_date" THEN to_datetime(df.rows[i][c])
                            ELSE df.rows[i][c]]]]

\* Lines 185-191: lower case, "nibrs" removed, "_" stripped.
NormalizeColumn(c) ==
    IF c = "nibrs_crime_against_category" THEN "crime_against_category" ELSE c
NormalizeColumns(df) ==
    [columns |-> {NormalizeColumn(c) : c \in df.columns},
     rows |-> [i \in 1..Len(df.rows) |->
                [c \in {NormalizeColumn(k) : k \in DOMAIN df.rows[i]} |->
                    df.rows[i][CHOOSE k \in DOMAIN df.rows[i] : NormalizeColumn(k) = c]]]]

\* crime_df.duplicated(): the rows equal to an earlier row.
duplicated(rows) ==
    {i \in 1..Len(rows) : \E j \in 1..(i - 1) : Cells(rows[j]) = Cells(rows[i])}
\* crime_df.drop_duplicates()
drop_duplicates(rows) == Take(rows, (1..Len(rows)) \ duplicated(rows), 1)

\* Variant: the category is not tested.
NotDash_precinct(row) == row["precinct"] # S("-")

\* Lines 203-204.
NotDash(row) ==
    /\ row["crime_against_category"] # S("-")
    /\ row["precinct"] # S("-")

\* Variant: only the redaction marker is rejected.
LatitudeKept_redacted(row) == row["latitude"] # S("REDACTED")

\* Lines 209-211.
LatitudeKept(row) ==
    /\ row["latitude"] # S("REDACTED")
    /\ row["latitude"] # S("-1.0")

\* float(s) of the strings in play; any other string raises ValueError.
NumericStrings == {"47.6", "-122.3", "0.0", "0", "-1.0"}
ParseFloat(v) == IF v = "0" THEN "0.0" ELSE v

\* Lines 212-213, Series.astype(float): whether it raises, and its cells.
CanFloat(c) == c.t = "str" => c.v \in NumericStrings
AsFloat(c) == IF c.t = "str" THEN N(ParseFloat(c.v)) ELSE c
astype_float(rows, col) ==
    [i \in 1..Len(rows) |-> [rows[i] EXCEPT ![col] = AsFloat(rows[i][col])]]

\* Variant: no dropna().
NoMissing_off(row) == TRUE

\* Line 216, crime_df.dropna(): the rows without a missing value.
NoMissing(row) == \A c \in DOMAIN row : ~IsNA(row[c])

\* Lines 217-218.
IsCrime(row) == row["crime_against_category"] # S("NOT_A_CRIME")
NotOrigin(row) == ~(row["longitude"] = N("0.0") /\ row["latitude"] = N("0.0"))

\* Series.value_counts().to_dict(): missing values are not counted.
value_counts(rows, col) ==
    LET present == {rows[i][col].v : i \in {j \in 1..Len(rows) : ~IsNA(rows[j][col])}}
    IN [v \in present |-> Cardinality({i \in 1..Len(rows) : rows[i][col] = S(v)})]

\* str(timestamp) cell by cell, and the formatting of a datetime64 column,
\* which takes one format for the whole column: the date alone when every
\* value is at midnight, and otherwise the fractional digits of the finest
\* value.
astype_str(cells) ==
    IF cells # <<>> /\ \A i \in 1..Len(cells) : cells[i].t = "ts"
    THEN IF \A i \in 1..Len(cells) : cells[i].sec = 0 /\ cells[i].frac = 0
         THEN [i \in 1..Len(cells) |->
                 [t |-> "str", sep |-> "-", day |-> cells[i].day, sec |-> 0,
                  fdigits |-> 0, frac |-> 0]]
         ELSE LET digits == IF \E i \in 1..Len(cells) : cells[i].frac # 0 THEN 3 ELSE 0
              IN [i \in 1..Len(cells) |->
                    [t |-> "str", sep |-> " ", day |-> cells[i].day, sec |-> cells[i].sec,
                     fdigits |-> digits, frac |-> cells[i].frac]]
    ELSE [i \in 1..Len(cells) |->
            IF cells[i].t = "ts"
            THEN [t |-> "str", sep |-> " ", day |-> cells[i].day, sec |-> cells[i].sec,
                  fdigits |-> (IF cells[i].frac = 0 THEN 0 ELSE 6), frac |-> cells[i].frac]
            ELSE cells[i]]

\* Variant: the pattern asks for the three fractional digits.
iso_8601_pattern_ms(val) == val.t = "str" /\ val.sep = "T" /\ val.fdigits = 3

\* Lines 221-224: date, "T", time and at most three fractional digits.
iso_8601_pattern(val) == val.t = "str" /\ val.sep = "T" /\ val.fdigits \in 0..3

\* Variant: the repaired value is written without the milliseconds.
correct_datetime_plain(val) ==
    IF val.t = "str" /\ val.sep \in {" ", "T"} /\ val.fdigits = 0
    THEN [val EXCEPT !.sep = "T", !.fdigits = 0, !.frac = 0]
    ELSE NaT

\* Lines 226-232: strptime with "%Y-%m-%d %H:%M:%S", then with
\* "%Y-%m-%dT%H:%M:%S", written back with ".000"; None when both fail.
correct_datetime(val) ==
    IF val.t = "str" /\ val.sep \in {" ", "T"} /\ val.fdigits = 0
    THEN [val EXCEPT !.sep = "T", !.fdigits = 3, !.frac = 0]
    ELSE NaT

\* Lines 239-249: the value written to corrected_dates.
corrected(val) == IF iso_8601_pattern(val) THEN val ELSE correct_datetime(val)

\* The Output of clean_and_analyze_crime_data, or the exception it raised.
\* reached is not part of the Output: the index labels of the rows that
\* reached the timestamp step.
NoOutput ==
    [status |-> "none", columns |-> {}, rows |-> <<>>, rows_after |-> 0,
     duplicates_removed |-> FALSE, valid_dt |-> 0, invalid_dt |-> 0,
     counts_before |-> <<>>, counts_after |-> <<>>, reached |-> {}]
Raised(error) == [NoOutput EXCEPT !.status = error]

\* Variant: no dropna(subset=["offense_date"]).
HasDate_off(row) == TRUE

\* Line 251, dropna(subset=["offense_date"]).
HasDate(row) == ~IsNA(row["offense_date"])

\* Lines 234-251: the offense_date column rewritten and the two counters.
ValidateDates(rows) ==
    LET strs == astype_str([i \in 1..Len(rows) |-> rows[i]["offense_date"]])
        corrected_dates == [i \in 1..Len(rows) |-> corrected(strs[i])]
        written == [i \in 1..Len(rows) |->
                      [rows[i] EXCEPT !["offense_date"] = corrected_dates[i]]]
    IN [rows |-> SelectSeq(written, HasDate),
        valid_dt |-> Cardinality({i \in 1..Len(rows) : ~IsNA(corrected_dates[i])}),
        invalid_dt |-> Cardinality({i \in 1..Len(rows) : IsNA(corrected_dates[i])})]

\* Lines 178-266, clean_and_analyze_crime_data.
Clean(input) ==
    LET df == NormalizeColumns(input) IN
    IF ~({"crime_against_category", "precinct", "latitude", "longitude"}
            \subseteq df.columns)
    THEN Raised("KeyError")
    ELSE
    LET first_check == duplicated(df.rows) # {}
        r1 == IF first_check THEN drop_duplicates(df.rows) ELSE df.rows
        had_duplicates == duplicated(r1) # {}
        r2 == IF had_duplicates THEN drop_duplicates(r1) ELSE r1
        r3 == SelectSeq(r2, NotDash)
        crime_category_counts_before == value_counts(r3, "crime_against_category")
        r4 == SelectSeq(r3, LatitudeKept)
    IN
    IF \E i \in 1..Len(r4) : ~CanFloat(r4[i]["latitude"]) \/ ~CanFloat(r4[i]["longitude"])
    THEN Raised("ValueError")
    ELSE
    LET r5 == astype_float(astype_float(r4, "latitude"), "longitude")
        r6 == SelectSeq(r5, NoMissing)
        r7 == SelectSeq(r6, IsCrime)
        r8 == SelectSeq(r7, NotOrigin)
        dates == IF "offense_date" \in df.columns
                 THEN ValidateDates(r8)
                 ELSE [rows |-> r8, valid_dt |-> 0, invalid_dt |-> 0]
    IN [status |-> "ok",
        columns |-> df.columns,
        rows |-> dates.rows,
        rows_after |-> Len(dates.rows),
        duplicates_removed |-> had_duplicates,
        valid_dt |-> dates.valid_dt,
        invalid_dt |-> dates.invalid_dt,
        counts_before |-> crime_category_counts_before,
        counts_after |-> value_counts(dates.rows, "crime_against_category"),
        reached |-> {r8[i]["index"].v : i \in 1..Len(r8)}]

\* Variant: if_exists="append".
to_sql_append(tbl, out) ==
    [columns |-> tbl.columns \cup out.columns,
     rows |-> tbl.rows \o [i \in 1..Len(out.rows) |-> Cells(out.rows[i])]]

\* Lines 274-279, to_sql(table, if_exists="replace", index=False): the
\* table is dropped and created again from the frame.
to_sql(tbl, out) ==
    [columns |-> out.columns,
     rows |-> [i \in 1..Len(out.rows) |-> Cells(out.rows[i])]]

NoTable == [columns |-> {}, rows |-> <<>>]

MaxRuns == 2         \* runs of the daily job after ingestion

\* The input batches: up to MaxRows records, with or without the
\* offense_date field.
WithoutColumn(recs, col) ==
    [i \in 1..Len(recs) |-> [c \in DOMAIN recs[i] \ {col} |-> recs[i][c]]]
Batches ==
    LET B == SeqsUpTo(RawRecords, MaxRows)
    IN B \cup {WithoutColumn(b, "offense_date") : b \in B}

VARIABLES
    api_data,        \* the remote dataset
    api_version,     \* number of changes made to the remote dataset
    clock,           \* the current UTC date
    collection,      \* the MongoDB collection, in insertion order
    pc,              \* "idle" or "fetching"
    outcome,         \* how the current (or last) run ended
    start_date, today, current_date, offset, inserted_day, inserted_total,
    requests,        \* requests issued by the current (or last) run
    last_status,     \* how the last request of the run ended
    run_version,     \* api_version when the current (or last) run began
    run_collection,  \* the collection when the current (or last) run began
    last_batch,      \* the response of the last successful request
    page_collection, \* the collection before the last successful request
    page_offset,     \* the offset of the last successful request
    page_date,       \* the date of the last successful request
    prev,            \* the run before the current (or last) one
    data_list,       \* the records the daily job works on
    frame,           \* the DataFrame handed to the next step
    loaded,          \* whether frame came out of the load step
    stage,           \* "off", "input", "loaded", "cleaned" or "stored"
    output,          \* the Output of the cleaning step
    table,           \* the table CleanSeattleCrimeData
    old_table,       \* the table before the last write
    runs             \* runs of the daily job so far

vars == <<api_data, api_version, clock, collection, pc, outcome, start_date,
          today, current_date, offset, inserted_day, inserted_total,
          requests, last_status, run_version, run_collection, last_batch,
          page_collection, page_offset, page_date, prev,
          data_list, frame, loaded, stage, output, table, old_table, runs>>

jobVars == <<data_list, frame, loaded, stage, output, table, old_table, runs>>

runVars == <<pc, outcome, start_date, today, current_date, offset,
             inserted_day, inserted_total, requests, last_status,
             run_version, run_collection, last_batch, page_collection,
             page_offset, page_date, prev>>

NoRun == [outcome |-> "none", start_date |-> 0, today |-> 0, version |-> 0,
          inserted_total |-> 0]

IngestIdle ==
    /\ api_data = {}
    /\ api_version = 0
    /\ clock = EPOCH
    /\ collection = <<>>
    /\ pc = "idle"
    /\ outcome = "none"
    /\ start_date = 0
    /\ today = 0
    /\ current_date = 0
    /\ offset = 0
    /\ inserted_day = 0
    /\ inserted_total = 0
    /\ requests = 0
    /\ last_status = "none"
    /\ run_version = 0
    /\ run_collection = <<>>
    /\ last_batch = <<>>
    /\ page_collection = <<>>
    /\ page_offset = 0
    /\ page_date = 0
    /\ prev = NoRun

\* The daily job's later steps are not part of the ingestion specification.
JobOff ==
    /\ data_list = <<>>
    /\ frame = DataFrame(<<>>)
    /\ loaded = FALSE
    /\ stage = "off"
    /\ output = NoOutput
    /\ table = NoTable
    /\ old_table = NoTable
    /\ runs = 0

Init == IngestIdle /\ JobOff

\* ----------------------------------------------------------- environment
\* A day passes.  The run reads the clock once (line 60), so only the clock
\* between runs matters.
Tick ==
    /\ pc = "idle"
    /\ clock < MaxDay
    /\ clock' = clock + 1
    /\ UNCHANGED <<api_data, api_version, collection>>
    /\ UNCHANGED runVars
    /\ UNCHANGED jobVars

\* The publisher adds a record to the remote dataset (between runs).
Publish ==
    /\ pc = "idle"
    /\ api_version < MaxVersion
    /\ Cardinality(api_data) < MaxRemote
    /\ \E r \in Records \ api_data : api_data' = api_data \cup {r}
    /\ api_version' = api_version + 1
    /\ UNCHANGED <<clock, collection>>
    /\ UNCHANGED runVars
    /\ UNCHANGED jobVars

\* ------------------------------------------------------ fetch_crime_data
ThisRun ==
    [outcome |-> outcome, start_date |-> start_date, today |-> today,
     version |-> run_version, inserted_total |-> inserted_total]

\* Lines 41-72: resolve the checkpoint, read the clock, return at once when
\* there is nothing to fetch.
BeginRun ==
    /\ pc = "idle"
    /\ LET start == ResolveStart(collection) IN
         /\ start_date' = start
         /\ today' = clock
         /\ IF NoNewData(start, clock)
            THEN /\ pc' = "idle"
                 /\ outcome' = "no_new_data"
            ELSE /\ pc' = "fetching"
                 /\ outcome' = "running"
         /\ current_date' = start
    /\ offset' = 0
    /\ inserted_day' = 0
    /\ inserted_total' = 0
    /\ requests' = 0
    /\ last_status' = "none"
    /\ run_version' = api_version
    /\ run_collection' = collection
    /\ prev' = ThisRun
    /\ last_batch' = <<>>
    /\ page_collection' = <<>>
    /\ page_offset' = 0
    /\ page_date' = 0
    /\ UNCHANGED <<api_data, api_version, clock, collection>>
    /\ UNCHANGED jobVars

\* Lines 82-117: one request and what follows it up to the next request (or
\* the end of the run).  A request that raises ends the run with the
\* exception.
Request ==
    /\ pc = "fetching"
    /\ requests' = requests + 1
    /\ \E status \in Statuses :
         /\ last_status' = status
         /\ IF Raises(status)
            THEN /\ pc' = "idle"
                 /\ outcome' = "aborted"
                 /\ UNCHANGED <<collection, current_date, offset,
                                inserted_day, inserted_total, last_batch,
                                page_collection, page_offset, page_date>>
            ELSE LET batch == Page(api_data, current_date, offset) IN
                 /\ last_batch' = batch
                 /\ page_collection' = collection
                 /\ page_offset' = offset
                 /\ page_date' = current_date
                 /\ IF EndOfDate(batch)
                    THEN \* break; inserted_total += inserted_day; next date
                         /\ inserted_total' = inserted_total + inserted_day
                         /\ current_date' = current_date + 1
                         /\ offset' = 0
                         /\ inserted_day' = 0
                         /\ collection' = collection
                         /\ IF MoreDates(current_date + 1, today)
                            THEN pc' = "fetching" /\ outcome' = outcome
                            ELSE pc' = "idle" /\ outcome' = "completed"
                    ELSE /\ IF operations(batch) # <<>>
                            THEN /\ collection' \in bulk_write(collection, operations(batch))
                                 /\ inserted_day' =
                                      inserted_day + upserted_count(collection, collection')
                            ELSE /\ collection' = collection
                                 /\ inserted_day' = inserted_day
                         /\ offset' = offset + batch_size
                         /\ UNCHANGED <<inserted_total, current_date, pc, outcome>>
    /\ UNCHANGED <<api_data, api_version, clock, start_date, today,
                   run_version, run_collection, prev>>
    /\ UNCHANGED jobVars

Next ==
    \/ Tick
    \/ Publish
    \/ BeginRun
    \/ Request

Spec == Init /\ [][Next]_vars

\* ------------------------------------- the daily job after the ingestion
ingestVars == <<api_data, api_version, clock, collection>>

InitJob ==
    /\ IngestIdle
    /\ data_list \in Batches
    /\ frame = DataFrame(data_list)
    /\ loaded = FALSE
    /\ stage = "input"
    /\ output = NoOutput
    /\ table = NoTable
    /\ old_table = NoTable
    /\ runs = 1

\* load_and_process_crime_data_from_mongodb on the stored documents.
LoadRun ==
    /\ stage = "input"
    /\ frame' = Load(data_list)
    /\ loaded' = TRUE
    /\ stage' = "loaded"
    /\ UNCHANGED <<data_list, output, table, old_table, runs>>
    /\ UNCHANGED <<ingestVars, runVars>>

\* clean_and_analyze_crime_data, on the frame of the load step or on a
\* frame of raw records handed to it.
CleanRun ==
    /\ stage \in {"input", "loaded"}
    /\ output' = Clean(frame)
    /\ stage' = "cleaned"
    /\ UNCHANGED <<data_list, frame, loaded, table, old_table, runs>>
    /\ UNCHANGED <<ingestVars, runVars>>

\* store_crime_data_postgres on the cleaned frame; it does not run when
\* the cleaning step raised.
StoreRun ==
    /\ stage = "cleaned"
    /\ output.status = "ok"
    /\ table' = to_sql(table, output)
    /\ old_table' = table
    /\ stage' = "stored"
    /\ UNCHANGED <<data_list, frame, loaded, output, runs>>
    /\ UNCHANGED <<ingestVars, runVars>>

\* The next run of the job, over other stored documents.
NextRun ==
    /\ stage \in {"cleaned", "stored"}
    /\ runs < MaxRuns
    /\ runs' = runs + 1
    /\ data_list' \in Batches
    /\ frame' = DataFrame(data_list')
    /\ loaded' = FALSE
    /\ stage' = "input"
    /\ output' = NoOutput
    /\ UNCHANGED <<table, old_table>>
    /\ UNCHANGED <<ingestVars, runVars>>

NextJob ==
    \/ LoadRun
    \/ CleanRun
    \/ StoreRun
    \/ NextRun

SpecJob == InitJob /\ [][NextJob]_vars

\* ------------------------------------- one run over the batch of three
\* The batch of the worked example of the cleaning: a record with the
\* latitude "REDACTED", a record with the category "-" and a valid record,
\* in any order.
Categories == {"PERSON", "PROPERTY"}
ValidDates == {DateStr("T", 1, 3, 0), DateStr("T", 1, 0, 0), DateStr(" ", 1, 0, 0)}
RedactedRecord(cat, lon) ==
    Override(ValidRecord, [report_number |-> S("R1"),
                           nibrs_crime_against_category |-> S(cat),
                           latitude |-> S("REDACTED"),
                           longitude |-> S(lon)])
DashRecord ==
    Override(ValidRecord, [report_number |-> S("R2"),
                           nibrs_crime_against_category |-> S("-")])
FullyValid(cat, date) ==
    Override(ValidRecord, [report_number |-> S("R3"),
                           nibrs_crime_against_category |-> S(cat),
                           offense_date |-> date])
Shuffles(a, b, c) ==
    {<<a, b, c>>, <<a, c, b>>, <<b, a, c>>, <<b, c, a>>, <<c, a, b>>, <<c, b, a>>}
ExampleBatches ==
    UNION {Shuffles(RedactedRecord(c1, lon), DashRecord, FullyValid(c3, date)) :
             c1 \in Categories, lon \in {"-122.3", "REDACTED"},
             c3 \in Categories, date \in ValidDates}

InitExample ==
    /\ IngestIdle
    /\ data_list \in ExampleBatches
    /\ frame = DataFrame(data_list)
    /\ loaded = FALSE
    /\ stage = "input"
    /\ output = NoOutput
    /\ table = NoTable
    /\ old_table = NoTable
    /\ runs = 1

NextExample ==
    \/ LoadRun
    \/ CleanRun
    \/ StoreRun

SpecExample == InitExample /\ [][NextExample]_vars

\* ------------------------------------------------------------ properties
Finished == {"completed", "no_new_data"}

KeySet(coll) ==
    {coll[i]["report_number"] : i \in {j \in 1..Len(coll) : HasKey(coll[j])}}

\* The stored document with report_number k.
Doc(coll, k) ==
    coll[CHOOSE i \in 1..Len(coll) : HasKey(coll[i]) /\ coll[i]["report_number"] = k]

\* The dates a run with this start and this clock reading fetches.
FetchedDates(start, now) == start..now

\* Two runs in a row, both ended normally, with the remote dataset unchanged
\* from the start of the first to now.
TwoRunsUnchanged ==
    /\ pc = "idle"
    /\ outcome \in Finished
    /\ prev.outcome \in Finished
    /\ prev.version = api_version

\* A record with a report_number that a request for a date after the first
\* run's clock reading, up to the second run's, returns.
DatedAfterFirstRun ==
    \E r \in api_data :
        /\ HasKey(r)
        /\ \E d \in (prev.today + 1)..today : InWindow(r, d)

\* C1 as stated: the second of two runs over an unchanged remote dataset
\* upserts no new document and leaves the set of report_number keys as it was.
C1_SecondRunInsertsNothing ==
    TwoRunsUnchanged =>
        /\ inserted_total = 0
        /\ KeySet(collection) = KeySet(run_collection)

\* C1 amended: the second of two runs over an unchanged remote dataset
\* upserts no new document and leaves the set of report_number keys as it
\* was, provided the remote dataset holds no record with a report_number
\* whose offense_date falls in the window of a date after the first run's
\* today and up to the second run's today.
C1_Idempotent ==
    (TwoRunsUnchanged /\ ~DatedAfterFirstRun) =>
        /\ inserted_total = 0
        /\ KeySet(collection) = KeySet(run_collection)

\* The first run inserted documents and the second run issued requests.
C1_Witness ==
    /\ TwoRunsUnchanged
    /\ ~DatedAfterFirstRun
    /\ outcome = "completed"
    /\ prev.outcome = "completed"
    /\ prev.inserted_total > 0
    /\ requests > 0

\* C2: starting from an empty collection, whatever runs completed or
\* aborted, no two documents of the collection carry the same report_number.
C2_NaturalKeyUnique ==
    \A i, j \in 1..Len(collection) :
        (i # j /\ HasKey(collection[i]) /\ HasKey(collection[j]))
            => collection[i]["report_number"] # collection[j]["report_number"]

\* A page upserted a record whose report_number was already stored.
C2_Witness ==
    \E i \in 1..Len(last_batch) :
        /\ HasKey(last_batch[i])
        /\ last_batch[i]["report_number"] \in KeySet(page_collection)

\* C3: the start date a run computes is never earlier than the start date
\* the run before it computed (so it is non-decreasing along every sequence
\* of runs), also when upserts overwrite the offense_date of stored
\* documents.
C3_CheckpointMonotone ==
    prev.outcome # "none" => start_date >= prev.start_date

\* Two completed runs, the second with a later start date and an upsert that
\* changed the offense_date of a document stored before it.
C3_Witness ==
    /\ pc = "idle"
    /\ outcome = "completed"
    /\ prev.outcome = "completed"
    /\ start_date > prev.start_date
    /\ \E i \in 1..Len(run_collection) :
          collection[i]["offense_date"] # run_collection[i]["offense_date"]

\* C4: a run whose start date is after today issues no request, leaves the
\* collection as it found it and ends normally with the no-new-data outcome.
C4_NoOpBoundary ==
    (outcome # "none" /\ start_date > today) =>
        /\ pc = "idle"
        /\ outcome = "no_new_data"
        /\ requests = 0
        /\ collection = run_collection

\* A no-op run over a collection that holds documents.
C4_Witness ==
    /\ outcome = "no_new_data"
    /\ start_date > today
    /\ collection # <<>>

\* C5 as stated, for the records a request of the window returns: after an
\* aborted run and a following run that completes over the same remote
\* dataset, every remote record with a report_number that a request for a
\* date from the aborted run's start date to today returns has its
\* report_number in the collection.
C5_ResumeAfterAbort ==
    (/\ pc = "idle"
     /\ outcome = "completed"
     /\ prev.outcome = "aborted"
     /\ prev.version = api_version) =>
        \A r \in api_data :
            (HasKey(r) /\ \E d \in FetchedDates(prev.start_date, today) : InWindow(r, d))
                => r["report_number"] \in KeySet(collection)

\* C6 as stated: when a run completes over a remote dataset that did not
\* change during it, every remote record with a report_number whose
\* offense_date is on a date from start_date to today has its report_number
\* in the collection.
C6_RunComplete ==
    (/\ pc = "idle"
     /\ outcome = "completed"
     /\ run_version = api_version) =>
        \A r \in api_data :
            (HasKey(r) /\ DateOf(r["offense_date"]) \in FetchedDates(start_date, today))
                => r["report_number"] \in KeySet(collection)

\* The record's report_number occurs once in the batch.
OnceInBatch(batch, i) ==
    \A j \in 1..Len(batch) :
        (j # i /\ HasKey(batch[j]))
            => batch[j]["report_number"] # batch[i]["report_number"]

C8_InsertCountAccurate ==
    (pc = "idle" /\ outcome = "completed") =>
        inserted_total = Cardinality(KeySet(collection) \ KeySet(run_collection))

\* A completed run that inserted documents and fetched two records with the
\* same report_number.
C8_Witness ==
    /\ pc = "idle"
    /\ outcome = "completed"
    /\ run_version = api_version
    /\ inserted_total > 0
    /\ \E r, q \in api_data :
          /\ r # q
          /\ HasKey(r) /\ HasKey(q)
          /\ r["report_number"] = q["report_number"]
          /\ \E d \in FetchedDates(start_date, today) : InWindow(r, d)
          /\ \E d \in FetchedDates(start_date, today) : InWindow(q, d)

\* C9: a request that fails writes nothing and ends the run as aborted, and
\* from then on, until another run begins, no request is issued and the
\* collection is not written.
C9_FailFast ==
    [][/\ (requests' = requests + 1 /\ last_status' # "ok") =>
            (collection' = collection /\ pc' = "idle" /\ outcome' = "aborted")
       /\ outcome = "aborted" =>
            (BeginRun \/ (requests' = requests /\ collection' = collection /\ pc' = "idle"))]_vars

\* A run aborted after it had written a page.
C9_Witness ==
    /\ outcome = "aborted"
    /\ last_status # "ok"
    /\ requests >= 2
    /\ collection # run_collection

\* C10: no document without a report_number is ever stored; after a page
\* that returned records, the report_number of each of its records that has
\* one is stored, the run goes on, and pagination of the date continues at
\* the next offset, also when no record of the page has a report_number.
C10_KeylessDropped ==
    /\ \A i \in 1..Len(collection) : HasKey(collection[i])
    /\ last_batch # <<>> =>
          /\ \A i \in 1..Len(last_batch) :
                HasKey(last_batch[i]) =>
                    last_batch[i]["report_number"] \in KeySet(collection)
          /\ current_date = page_date
          /\ offset = page_offset + batch_size
          /\ last_status = "ok" => (pc = "fetching" /\ outcome = "running")

\* The first page of a date held only records without a report_number (it
\* wrote nothing) and the second page of that date inserted a document.
C10_Witness ==
    /\ last_status = "ok"
    /\ page_date = start_date
    /\ page_offset = batch_size
    /\ page_collection = run_collection
    /\ Len(collection) > Len(page_collection)

\* ------------------------------------- properties of the daily job
CleanedOk == stage = "cleaned" /\ output.status = "ok"

\* The positions in data_list of the rows of the cleaned frame, and the
\* cleaned row that came from position i.
Survivors == {output.rows[k]["index"].v : k \in 1..Len(output.rows)}
RowOf(i) == output.rows[CHOOSE k \in 1..Len(output.rows) : output.rows[k]["index"].v = i]

\* C11: the cleaning step completes on every batch of records, however
\* malformed their coordinates or dates are; it never raises.
C11_NeverRaises ==
    (stage = "cleaned" /\ data_list # <<>>) => output.status = "ok"

\* C12, as stated: no cleaned row has the coordinates (0.0, 0.0), and none
\* comes from a record whose latitude was "REDACTED", "-1.0" or the number
\* -1.0.
C12_CoordinateFilter ==
    CleanedOk =>
        \A i \in Survivors :
            /\ ~(RowOf(i)["latitude"] = N("0.0") /\ RowOf(i)["longitude"] = N("0.0"))
            /\ data_list[i]["latitude"] \notin {S("REDACTED"), S("-1.0"), N("-1.0")}

\* C12, amended: no cleaned row has the coordinates (0.0, 0.0), and none
\* comes from a record whose latitude was the string "REDACTED" or the
\* string "-1.0"; a record with the number -1.0 passes the filter.
C12_StringSentinels ==
    CleanedOk =>
        \A i \in Survivors :
            /\ ~(RowOf(i)["latitude"] = N("0.0") /\ RowOf(i)["longitude"] = N("0.0"))
            /\ data_list[i]["latitude"] \notin {S("REDACTED"), S("-1.0")}

\* A record with the latitude "-1.0" was dropped beside one that was kept.
C12_Witness ==
    /\ CleanedOk
    /\ Survivors # {}
    /\ \E i \in (1..Len(data_list)) \ Survivors : data_list[i]["latitude"] = S("-1.0")

\* C13: no cleaned row has the category "-" or "NOT_A_CRIME", the precinct
\* "-", or a missing value in any column.
C13_NoSentinelsNoMissing ==
    CleanedOk =>
        \A k \in 1..Len(output.rows) :
            /\ output.rows[k]["crime_against_category"] \notin {S("-"), S("NOT_A_CRIME")}
            /\ output.rows[k]["precinct"] # S("-")
            /\ \A c \in output.columns : ~IsNA(output.rows[k][c])

\* A record without a category was dropped beside one that was kept.
C13_Witness ==
    /\ CleanedOk
    /\ Survivors # {}
    /\ \E i \in (1..Len(data_list)) \ Survivors :
           IsNA(data_list[i]["nibrs_crime_against_category"])

\* The forms of an offense_date text the claim C14 tells apart.
SpaceForm(d) == d.t = "str" /\ d.sep = " " /\ d.fdigits = 0
StrictIso(d) == d.t = "str" /\ d.sep = "T" /\ d.fdigits <= 3
Dateless == {i \in output.reached :
                /\ ~SpaceForm(data_list[i]["offense_date"])
                /\ ~StrictIso(data_list[i]["offense_date"])}

\* C14: of the records handed to the cleaning step that reach its timestamp
\* step, one dated "YYYY-MM-DD HH:MM:SS" leaves as
\* "YYYY-MM-DDTHH:MM:SS.000", one dated in the strict ISO form with "T" and
\* at most three fractional digits leaves unchanged, and one dated in
\* neither form is dropped and counted once as invalid.
C14_TimestampNormalised ==
    (CleanedOk /\ ~loaded /\ "offense_date" \in output.columns) =>
        /\ \A i \in output.reached :
              LET d == data_list[i]["offense_date"] IN
              /\ SpaceForm(d) =>
                    /\ i \in Survivors
                    /\ RowOf(i)["offense_date"] = DateStr("T", d.sec, 3, 0)
              /\ StrictIso(d) =>
                    /\ i \in Survivors
                    /\ RowOf(i)["offense_date"] = d
              /\ (~SpaceForm(d) /\ ~StrictIso(d)) => i \notin Survivors
        /\ output.invalid_dt = Cardinality(Dateless)

\* A record dated in the form with the space was rewritten beside one that
\* was dropped for its date.
C14_Witness ==
    /\ CleanedOk /\ ~loaded /\ "offense_date" \in output.columns
    /\ \E i \in Survivors : SpaceForm(data_list[i]["offense_date"])
    /\ output.invalid_dt = 1

\* The categories of some records and how many of the records carry each.
Tally(recs) ==
    [v \in {recs[i]["nibrs_crime_against_category"].v : i \in 1..Len(recs)} |->
        Cardinality({i \in 1..Len(recs) :
                        recs[i]["nibrs_crime_against_category"].v = v})]
TheValid == CHOOSE i \in 1..Len(data_list) : data_list[i]["report_number"] = S("R3")
NotTheDash == SelectSeq(data_list, LAMBDA r : r["nibrs_crime_against_category"] # S("-"))

C16_TableIsSnapshot ==
    stage = "stored" =>
        /\ table.columns = output.columns
        /\ Len(table.rows) = Len(output.rows)
        /\ \A k \in 1..Len(output.rows) : table.rows[k] = Cells(output.rows[k])

\* The second run wrote one row over a table of two rows, neither of which
\* is that row.
C16_Witness ==
    /\ stage = "stored"
    /\ runs = 2
    /\ Len(old_table.rows) = 2
    /\ Len(table.rows) = 1
    /\ \A k \in 1..2 : old_table.rows[k] # table.rows[1]

\* C18: "Duplicates Removed" is reported true exactly when the frame handed
\* to the cleaning step held a row equal to an earlier row.
C18_DuplicatesReported ==
    CleanedOk =>
        (output.duplicates_removed <=>
            \E i, j \in 1..Len(frame.rows) :
                i < j /\ Cells(frame.rows[i]) = Cells(frame.rows[j]))

\* A stored record whose fields other than offense_date are valid, and an
\* offense_date no datetime parser reads.
OtherwiseValid(rec) ==
    /\ rec["nibrs_crime_against_category"] \in {S(c) : c \in Categories}
    /\ rec["precinct"] = ValidRecord["precinct"]
    /\ rec["latitude"] = ValidRecord["latitude"]
    /\ rec["longitude"] = ValidRecord["longitude"]
Unparseable(d) == d.t = "str" /\ d.sep \notin {"T", " ", "-"}
Alone(i) == \A j \in 1..Len(data_list) : j # i => data_list[j] # data_list[i]

\* C19: in the daily run, where the cleaning step works on the frame of
\* the load step, every stored record with a strict ISO offense_date and
\* valid other fields is in the cleaned frame and counted valid, and every
\* such record with an unparseable offense_date is counted invalid.
C19_LoadThenClean ==
    (CleanedOk /\ loaded /\ "offense_date" \in output.columns) =>
        LET sound == {i \in 1..Len(data_list) : OtherwiseValid(data_list[i]) /\ Alone(i)}
            iso == {i \in sound : StrictIso(data_list[i]["offense_date"])}
            bad == {i \in sound : Unparseable(data_list[i]["offense_date"])}
        IN /\ iso \subseteq Survivors
           /\ output.valid_dt >= Cardinality(iso)
           /\ output.invalid_dt >= Cardinality(bad)

\* C20: when the frame has the column offense_date, the valid and the
\* invalid count add up to the number of rows that reached the timestamp
\* step, and "Rows After Cleaning" is the valid count.
C20_CountsConsistent ==
    (CleanedOk /\ "offense_date" \in output.columns) =>
        /\ output.valid_dt + output.invalid_dt = Cardinality(output.reached)
        /\ output.rows_after = output.valid_dt

\* Of two rows that reached the timestamp step one was counted valid and
\* one invalid.
C20_Witness ==
    /\ CleanedOk /\ "offense_date" \in output.columns
    /\ output.valid_dt = 1
    /\ output.invalid_dt = 1
    /\ output.rows_after = 1

====
